---- MODULE Spec2Model ----
(***************************************************************************)
(* Model of the client-side session lifecycle and optimistic-vote code of  *)
(* the feedback board front end.                                           *)
(*                                                                         *)
(*   Part I   AppContent.handleUpvoteFeedback (App.tsx): optimistic        *)
(*            toggle of a vote, commit on the server response, rollback on *)
(*            failure.  Specification SpecVote.                            *)
(*   Part II  TokenManager (tokenManager.ts): decoding of the token's      *)
(*            expiry, the warning / refresh / logout timers and the        *)
(*            logout countdown.  Specification SpecMon.                    *)
(*   Part III AuthService (auth.ts) wired to the TokenManager: login,      *)
(*            logout, isAuthenticated.  Specification SpecSession.         *)
(*   Part IV  AuthEventEmitter (authEvents.ts): on, the unsubscribe        *)
(*            closure, emit, off, clear.  Specification SpecBus.           *)
(*   Part V   StorageService (storage.ts): localStorage with a fallback to *)
(*            a Map in memory.  Specification SpecStore.                   *)
(*   Part VI  The axios interceptors of api.ts over storage, the event     *)
(*            emitter and the AuthService.  Specification SpecGuard.       *)
(*                                                                         *)
(* Time is counted in seconds (the code counts milliseconds; every delay   *)
(* it computes from the defaults is a whole number of seconds).            *)
(***************************************************************************)
EXTENDS Integers, Sequences, FiniteSets, TLC

VARIABLES
    \* ---- Part I: AppContent state (App.tsx) ----
    feedbacks,      \* useState<Feedback[]>: id -> [upvotes, has_upvoted]
    error,          \* useState(""): the user-visible error banner
    inflight,       \* upvote requests awaiting their response, each with the
                    \* closure of its handleUpvoteFeedback call (id, targetFeedback)
    \* history of Part I (not program state)
    issued,         \* id -> number of toggles issued so far on that entity
    latestResp,     \* id -> {} or {server response to the last-issued toggle}
    failed,         \* id -> some request on that entity has failed
    ev,             \* what the last handler step did
    \* ---- Part II: TokenManager state (tokenManager.ts) ----
    now,            \* Date.now(), in seconds
    warningTimer,   \* this.warningTimer
    refreshTimer,   \* this.refreshTimer
    logoutTimer,    \* this.logoutTimer
    countdowns,     \* pending setTimeout(updateCountdown, 1000) of the modal(s)
    onTokenExpiry,  \* this.onTokenExpiry is set
    onTokenRefresh, \* this.onTokenRefresh is set
    refreshAttempt, \* the last onTokenRefresh() call: not made, awaited, or
                    \* how it ended
    \* history of Part II (not program state)
    events,         \* what fired since the last startMonitoring, with its time
    lastCall,       \* the last startMonitoring call: token, time, isTokenExpired
    lastQuery,      \* the isTokenExpired / isAuthenticated call, if the last
                    \* step was one
    \* ---- Part III: AuthService state (auth.ts) ----
    service,        \* the AuthService singleton has been constructed
    authToken,      \* this.token: {} for null, else {token}
    authStored,     \* storage "auth_token": {} when absent, else {token}
    \* ---- Part IV: AuthEventEmitter state (authEvents.ts) ----
    handlers,       \* this.handlers: kind -> the Set of handlers, if any
    closures,       \* the unsubscribe closures on() has returned so far
    \* history of Part IV (not program state)
    subscribedAt,   \* kind -> handler -> number of the on() call that
                    \* subscribed it (0: not subscribed)
    onCalls,        \* number of on() calls so far
    lastEmit,       \* the last emit(): kind, the subscriptions it met, the
                    \* handlers it invoked, in order
    \* ---- Part V: StorageService state (storage.ts) ----
    isAvailable,    \* this.isAvailable
    memoryStorage,  \* this.memoryStorage: key -> value or Absent
    localStorage,   \* the browser's localStorage: key -> value or Absent
    \* history of Part V (not program state)
    probe,          \* how checkAvailability ended: "none" before construction
    kv,             \* the one key-value map the operations describe
    failedBefore,   \* a localStorage call failed in an operation before the
                    \* last one
    lastOp,         \* the last operation: what it returned, whether it raised,
                    \* whether it called localStorage, whether that call failed
    \* ---- Part VI: requests through the axios instance (api.ts) ----
    requests,       \* requests sent and not yet answered, with their header
    sent,           \* number of requests sent so far
    \* history of Part VI (not program state)
    lastResponse    \* the response the last step handled, if it handled one

voteVars == <<feedbacks, error, inflight, issued, latestResp, failed, ev>>
monVars  == <<now, warningTimer, refreshTimer, logoutTimer, countdowns,
              onTokenExpiry, onTokenRefresh, refreshAttempt, events, lastCall,
              lastQuery>>
sessVars == <<service, authToken, authStored>>
busVars  == <<handlers, closures, subscribedAt, onCalls, lastEmit>>
storeVars == <<isAvailable, memoryStorage, localStorage, probe, kv,
               failedBefore, lastOp>>
guardVars == <<requests, sent, lastResponse>>
vars     == <<feedbacks, error, inflight, issued, latestResp, failed, ev,
              now, warningTimer, refreshTimer, logoutTimer, countdowns,
              onTokenExpiry, onTokenRefresh, refreshAttempt, events, lastCall,
              lastQuery, service, authToken, authStored,
              handlers, closures, subscribedAt, onCalls, lastEmit,
              isAvailable, memoryStorage, localStorage, probe, kv,
              failedBefore, lastOp, requests, sent, lastResponse>>

\* No response was handled by the last step.
NoResponse ==
    [status |-> -1, auth |-> {}, before |-> {}, published |-> 0,
     observed |-> <<>>, rejected |-> FALSE, error |-> -1]

(***************************************************************************)
(*                     Part I : optimistic vote toggle                     *)
(***************************************************************************)

\* Bounds of the model.
MaxVotes   == 1   \* largest upvotes a server answer (or the first load) carries
MaxToggles == 3   \* toggles issued in one run, over all entities

\* The entities in the cache.
FeedbackIds == {1, 2}
\* The ids a caller may pass: the cached ones and one that is not in the cache.
CallIds     == {1, 2, 3}

RECURSIVE SumOver(_, _)
SumOver(f, S) ==
    IF S = {} THEN 0
    ELSE LET x == CHOOSE y \in S : TRUE IN f[x] + SumOver(f, S \ {x})
TogglesIssued == SumOver(issued, FeedbackIds)

\* Feedback / UpvoteResponse, restricted to the two fields the handler touches.
\* What the server sends: upvotes >= 0, and >= 1 when the viewer has upvoted.
ServerStates ==
    { [upvotes |-> n, has_upvoted |-> h] :
        n \in 0 .. MaxVotes, h \in BOOLEAN } \
    { [upvotes |-> 0, has_upvoted |-> TRUE] }

NoState == [upvotes |-> 0, has_upvoted |-> FALSE]
UpvoteFailedMsg == "Failed to upvote feedback. Please try again."

\* const targetFeedback = feedbacks.find(f => f.id === id)
\* The handler reads the feedbacks of the latest render; every setFeedbacks is
\* taken to be rendered before the next handler step runs.
FindFeedback(id) == IF id \in DOMAIN feedbacks THEN {feedbacks[id]} ELSE {}

\* wasUpvoted ? targetFeedback.upvotes - 1 : targetFeedback.upvotes + 1
MutOptimisticUpvotesAlwaysUp(target) == target.upvotes + 1
MutOptimisticUpvotesAlwaysDown(target) == target.upvotes - 1
OptimisticUpvotes(target) ==
    IF target.has_upvoted THEN target.upvotes - 1 ELSE target.upvotes + 1

\* prev.map(f => f.id === id ? {...f, upvotes, has_upvoted} : f)
MutMapEveryFeedback(prev, id, up, has) ==
    [f \in DOMAIN prev |-> [upvotes |-> up, has_upvoted |-> has]]
MapFeedback(prev, id, up, has) ==
    [f \in DOMAIN prev |->
        IF f = id THEN [upvotes |-> up, has_upvoted |-> has] ELSE prev[f]]

\* The optimistic setFeedbacks of handleUpvoteFeedback.
ApplyOptimistic(prev, id, target) ==
    MapFeedback(prev, id, OptimisticUpvotes(target), ~target.has_upvoted)

\* The setFeedbacks after the awaited response.
MutCommitUpvotesOnly(prev, id, response) ==
    MapFeedback(prev, id, response.upvotes, prev[id].has_upvoted)
ApplyResponse(prev, id, response) ==
    MapFeedback(prev, id, response.upvotes, response.has_upvoted)

\* The setFeedbacks of the catch block.
MutRollbackUpvotesOnly(prev, id, target) ==
    MapFeedback(prev, id, target.upvotes, prev[id].has_upvoted)
ApplyRollback(prev, id, target) ==
    MapFeedback(prev, id, target.upvotes, target.has_upvoted)

\* How the promise of handleUpvoteFeedback settles: the unknown id returns
\* early, the request failure is caught and not rethrown.
MutUpvoteSettlesRejectUnknown(known, requestOk) ==
    IF known THEN "resolved" ELSE "rejected"
UpvoteSettles(known, requestOk) == "resolved"

Ev(kind, id, seq, latest, before, snap, resp, errBefore, settled) ==
    [kind |-> kind, id |-> id, seq |-> seq, latest |-> latest,
     before |-> before, snap |-> snap, resp |-> resp,
     errBefore |-> errBefore, settled |-> settled]

InitVote ==
    /\ feedbacks \in [FeedbackIds -> ServerStates]
    /\ error = ""
    /\ inflight = {}
    /\ issued = [id \in FeedbackIds |-> 0]
    /\ latestResp = [id \in FeedbackIds |-> {}]
    /\ failed = [id \in FeedbackIds |-> FALSE]
    /\ ev = Ev("init", 0, 0, FALSE, NoState, NoState, NoState, "", "none")

\* handleUpvoteFeedback(id) with no such feedback: if (!targetFeedback) return
UpvoteUnknown(id) ==
    /\ FindFeedback(id) = {}
    /\ ev' = Ev("unknown", id, 0, FALSE, NoState, NoState, NoState, error,
                UpvoteSettles(FALSE, TRUE))
    /\ UNCHANGED <<feedbacks, error, inflight, issued, latestResp, failed>>
    /\ UNCHANGED <<monVars, sessVars, busVars, storeVars, requests, sent>>
    /\ lastResponse' = NoResponse

\* handleUpvoteFeedback(id) up to the await: optimistic update, setError(""),
\* the request is sent.
UpvoteIssue(id) ==
    /\ FindFeedback(id) # {}
    /\ TogglesIssued < MaxToggles
    /\ LET target == CHOOSE t \in FindFeedback(id) : TRUE
           seq    == issued[id] + 1
       IN  /\ feedbacks' = ApplyOptimistic(feedbacks, id, target)
           /\ error' = ""
           /\ inflight' = inflight \cup
                  {[id |-> id, target |-> target,
                    \* history: the issue order, the entity just before the toggle
                    seq |-> seq, pre |-> feedbacks[id]]}
           /\ issued' = [issued EXCEPT ![id] = seq]
           /\ latestResp' = [latestResp EXCEPT ![id] = {}]
           /\ ev' = Ev("issue", id, seq, TRUE, feedbacks[id], feedbacks[id], NoState,
                       error, "pending")
    /\ UNCHANGED failed
    /\ UNCHANGED <<monVars, sessVars, busVars, storeVars, requests, sent>>
    /\ lastResponse' = NoResponse

\* The awaited feedbackApi.upvote(id) resolves with `response`.
UpvoteResolved(r, response) ==
    /\ r \in inflight
    /\ feedbacks' = ApplyResponse(feedbacks, r.id, response)
    /\ inflight' = inflight \ {r}
    /\ latestResp' = IF r.seq = issued[r.id]
                     THEN [latestResp EXCEPT ![r.id] = {response}]
                     ELSE latestResp
    /\ ev' = Ev("commit", r.id, r.seq, r.seq = issued[r.id], feedbacks[r.id],
                r.pre, response, error, UpvoteSettles(TRUE, TRUE))
    /\ UNCHANGED <<error, issued, failed>>
    /\ UNCHANGED <<monVars, sessVars, busVars, storeVars, requests, sent>>
    /\ lastResponse' = NoResponse

\* The awaited feedbackApi.upvote(id) rejects: the catch block.
UpvoteRejected(r) ==
    /\ r \in inflight
    /\ feedbacks' = ApplyRollback(feedbacks, r.id, r.target)
    /\ error' = UpvoteFailedMsg
    /\ inflight' = inflight \ {r}
    /\ failed' = [failed EXCEPT ![r.id] = TRUE]
    /\ ev' = Ev("rollback", r.id, r.seq, r.seq = issued[r.id], feedbacks[r.id],
                r.pre, NoState, error, UpvoteSettles(TRUE, FALSE))
    /\ UNCHANGED <<issued, latestResp>>
    /\ UNCHANGED <<monVars, sessVars, busVars, storeVars, requests, sent>>
    /\ lastResponse' = NoResponse

HandleUpvoteFeedback ==
    \E id \in CallIds : (UpvoteUnknown(id) \/ UpvoteIssue(id))
UpvoteResponseArrives ==
    \E r \in inflight : \E response \in ServerStates : UpvoteResolved(r, response)
UpvoteRequestFails ==
    \E r \in inflight : UpvoteRejected(r)

NextVote ==
    \/ HandleUpvoteFeedback
    \/ UpvoteResponseArrives
    \/ UpvoteRequestFails

(***************************************************************************)
(*                     Part I : properties (SpecVote)                      *)
(* ev describes the last handler step: kind, the entity, whether the       *)
(* toggle was the last one issued on the entity when its response was      *)
(* handled (latest), the entity just before the step (before), the entity  *)
(* just before the toggle was applied (snap), the server response (resp),  *)
(* the error banner before the step (errBefore) and how the handler's      *)
(* promise settled (settled).                                              *)
(***************************************************************************)
Outstanding(id) == { r \in inflight : r.id = id }

\* C1: when two or more toggles were issued on an entity, every request
\* succeeded and none is outstanding any more, the entity equals the server's
\* response to the last-issued toggle, whatever the order of the responses.
C1_LastToggleWins ==
    \A id \in FeedbackIds :
        (issued[id] >= 2 /\ Outstanding(id) = {} /\ ~failed[id])
            => latestResp[id] = {feedbacks[id]}

\* C2: the failure of a toggle that a newer toggle has superseded leaves the
\* entity as it was just before the failure was handled.
C2_SupersededFailureKeepsEntity ==
    (ev.kind = "rollback" /\ ~ev.latest) => feedbacks[ev.id] = ev.before

\* C3: when a toggle's request fails and no newer toggle was issued on the
\* entity, the entity afterwards equals what it was just before the toggle.
C3_RollbackRestoresSnapshot ==
    (ev.kind = "rollback" /\ ev.latest) => feedbacks[ev.id] = ev.snap
\* A latest toggle failed and the rollback changed the entity.
C3_Witness ==
    /\ ev.kind = "rollback" /\ ev.latest
    /\ ev.before # ev.snap
    /\ feedbacks[ev.id] = ev.snap

\* C4: right after a toggle is invoked on a known entity, with its request
\* still outstanding, has_upvoted is inverted and upvotes moved by exactly one
\* (+1 from not upvoted, -1 from upvoted) relative to the entity at invocation.
C4_OptimisticToggle ==
    ev.kind = "issue" =>
        /\ \E r \in inflight : r.id = ev.id /\ r.seq = ev.seq
        /\ feedbacks[ev.id].has_upvoted = ~ev.before.has_upvoted
        /\ feedbacks[ev.id].upvotes =
              ev.before.upvotes + (IF ev.before.has_upvoted THEN -1 ELSE 1)
\* A toggle was just issued on an upvoted entity (the -1 case).
C4_Witness ==
    /\ ev.kind = "issue"
    /\ ev.before.has_upvoted
    /\ feedbacks[ev.id].upvotes = ev.before.upvotes - 1

\* C5: when a toggle's request succeeds and no newer toggle was issued on the
\* entity, the entity is exactly the server's response.
C5_CommitOverwrites ==
    (ev.kind = "commit" /\ ev.latest) => feedbacks[ev.id] = ev.resp
\* The server answered something else than the optimistic value, on both fields.
C5_Witness ==
    /\ ev.kind = "commit" /\ ev.latest
    /\ ev.resp.upvotes # ev.before.upvotes
    /\ ev.resp.has_upvoted # ev.before.has_upvoted
    /\ feedbacks[ev.id] = ev.resp

\* C6: every entity of the cache has upvotes >= 0 in every reachable state
\* (server answers have upvotes >= 0, and >= 1 when has_upvoted).
C6_VotesNonNegative ==
    \A id \in DOMAIN feedbacks : feedbacks[id].upvotes >= 0
\* An entity is at 0 after two or more toggles, one of which failed.
C6_Witness ==
    \E id \in FeedbackIds :
        /\ issued[id] >= 2 /\ failed[id]
        /\ feedbacks[id].upvotes = 0

\* C7 (as claimed): the handler's promise rejects when the id is unknown and
\* does not reject otherwise.
C7_RejectsIffUnknown ==
    /\ ev.kind = "unknown" => ev.settled = "rejected"
    /\ ev.kind \in {"commit", "rollback"} => ev.settled = "resolved"
\* C7 (amended): the handler's promise never rejects; for an unknown id, for a
\* successful and for a failed request alike it resolves.
C7_NeverRejects ==
    /\ ev.settled # "rejected"
    /\ ev.kind \in {"unknown", "commit", "rollback"} => ev.settled = "resolved"
\* The handler was called with an id that is not in the cache.
C7_Witness ==
    /\ ev.kind = "unknown" /\ ev.id \notin DOMAIN feedbacks
    /\ ev.settled = "resolved"

\* C8: the failure of a superseded toggle does not set the user-visible error.
C8_SupersededFailureNotShown ==
    (ev.kind = "rollback" /\ ~ev.latest) => error = ev.errBefore

\* C31: the optimistic application, the commit and the rollback of a toggle
\* on an entity (ev.id of the step) leave {upvotes, has_upvoted} of every
\* other entity b as they were, whatever is in flight on the two.
C31_OtherEntitiesUntouched ==
    [][\A b \in FeedbackIds :
          ev'.id # b => feedbacks'[b] = feedbacks[b]]_vars
\* A toggle on entity 1 has been rolled back, changing entity 1, while a
\* toggle on entity 2 is in flight with its optimistic value in the cache.
C31_Witness ==
    /\ ev.kind = "rollback"
    /\ ev.id = 1
    /\ ev.before # feedbacks[1]
    /\ \E r \in inflight :
          /\ r.id = 2
          /\ feedbacks[2] = ApplyOptimistic(feedbacks, 2, r.target)[2]
          /\ feedbacks[2] # r.target

(***************************************************************************)
(*                        Part II : TokenManager                           *)
(***************************************************************************)

\* TokenExpiryConfig defaults of the constructor.
WarningMinutes         == 5
RefreshMinutes         == 2
LogoutCountdownSeconds == 30

\* Bounds of the model.
MaxMinutes == 12   \* idle time passes only up to this clock value (minutes)

\* How much idle time one Elapse step lets pass (seconds).
ElapseSteps == {60}
\* The exp claims (unix seconds) of the well-formed tokens of the model.
TokenExps == {60, 600, 660}

\* A token, by what decoding it meets: whether it is the empty string, the
\* number of dot-separated parts, whether part 2 survives atob and JSON.parse,
\* and the exp of the payload (0: exp missing, null or zero).
Token(empty, parts, decodable, exp) ==
    [empty |-> empty, parts |-> parts, decodable |-> decodable, exp |-> exp]
Tokens ==
    { Token(FALSE, 3, TRUE, e) : e \in TokenExps } \cup
    { Token(TRUE, 1, FALSE, 0),       \* ""
      Token(FALSE, 2, FALSE, 0),      \* "abc.def"
      Token(FALSE, 3, FALSE, 0),      \* payload is not base64 of JSON
      Token(FALSE, 3, TRUE, 0) }      \* payload without exp

\* An outcome of a piece of code: it returned a value or it threw.
Returned(v) == [thrown |-> FALSE, value |-> v]
Thrown      == [thrown |-> TRUE, value |-> {}]

\* The try block of decodeToken: null ({}) for a token that has not three
\* parts; atob or JSON.parse throws on a part 2 that is not base64 of JSON;
\* else the decoded payload.
DecodeBody(token) ==
    IF token.parts # 3 THEN Returned({})
    ELSE IF ~token.decodable THEN Thrown
    ELSE Returned({[exp |-> token.exp]})

\* catch (error) { console.error(...); return null; }
MutUncaught(outcome) == outcome
Caught(outcome) == IF outcome.thrown THEN Returned({}) ELSE outcome

\* decodeToken: {} stands for null, {payload} for the decoded payload.
DecodeToken(token) == Caught(DecodeBody(token)).value
\* An error leaves decodeToken, and with it every caller up to the public
\* isTokenExpired and startMonitoring (none of them has a try block).
DecodeRaises(token) == Caught(DecodeBody(token)).thrown

\* getTokenExpiry: null, or payload.exp * 1000 (here: seconds).
GetTokenExpiry(token) ==
    LET payload == DecodeToken(token) IN
    IF payload = {} \/ (\E p \in payload : p.exp = 0) THEN {}
    ELSE { p.exp : p \in payload }

\* getTimeUntilExpiry at clock value t: null, or expiry - Date.now().
GetTimeUntilExpiry(token, t) ==
    LET expiry == GetTokenExpiry(token) IN
    IF expiry = {} \/ 0 \in expiry THEN {}
    ELSE { e - t : e \in expiry }

\* isTokenExpired at clock value t.
IsTokenExpired(token, t) ==
    LET timeUntilExpiry == GetTimeUntilExpiry(token, t) IN
    timeUntilExpiry = {} \/ (\E d \in timeUntilExpiry : d <= 0)

\* A timer field: null, the handle of a pending setTimeout (with the time it
\* is due), or the stale handle of a timeout that has fired.
NullTimer     == [st |-> "null", due |-> 0]
PendingAt(t)  == [st |-> "pending", due |-> t]
FiredAt(t)    == [st |-> "fired", due |-> t]

\* The due times of all pending timeouts of the manager.
PendingDues ==
    { f.due : f \in { g \in {warningTimer, refreshTimer, logoutTimer} :
                        g.st = "pending" } }
    \cup { c.due : c \in countdowns }
\* A timeout due at d may fire next: nothing pending is due earlier.
MayFire(d) == d >= now /\ \A e \in PendingDues : d <= e

Logged(what, t) == [what |-> what, at |-> t]
NoToken == Token(TRUE, 1, FALSE, 0)
\* The record of a startMonitoring / stopMonitoring call made at clock value
\* t: what isTokenExpired says of the token, whether an error left the call,
\* which callbacks are set, whether no countdown modal is running, and how
\* many entries of events precede the call.
Call(op, token, t, expired) ==
    [op |-> op, token |-> token, at |-> t, expired |-> expired,
     raised |-> (op = "start" /\ ~token.empty /\ DecodeRaises(token)),
     cbExpiry |-> onTokenExpiry, cbRefresh |-> onTokenRefresh,
     idle |-> (countdowns = {}),
     seen |-> IF op = "start" THEN 0 ELSE Len(events)]

\* What a token is, read off its parts: undecodable (no exp can be read),
\* expired (exp not after t) or valid.
Shape(token, t) ==
    IF token.parts # 3 \/ ~token.decodable \/ token.exp = 0 THEN "undecodable"
    ELSE IF token.exp <= t THEN "expired"
    ELSE "valid"
\* The record of an isTokenExpired / isAuthenticated call: the shape of the
\* token asked about ("none": no token held), the answer, whether an error
\* left the call, and whether the call left the program state as it was.
Query(op, shape, result, raised, kept) ==
    [op |-> op, shape |-> shape, result |-> result, raised |-> raised,
     kept |-> kept]
NoQuery == Query("none", "none", FALSE, FALSE, TRUE)

InitMon ==
    /\ now = 0
    /\ warningTimer = NullTimer
    /\ refreshTimer = NullTimer
    /\ logoutTimer = NullTimer
    /\ countdowns = {}
    /\ onTokenExpiry = FALSE
    /\ onTokenRefresh = FALSE
    /\ refreshAttempt = "none"
    /\ events = <<>>
    /\ lastCall = [op |-> "new", token |-> NoToken, at |-> 0, expired |-> TRUE,
                   raised |-> FALSE, cbExpiry |-> FALSE, cbRefresh |-> FALSE,
                   idle |-> TRUE, seen |-> 0]
    /\ lastQuery = NoQuery

\* setOnTokenExpiry(callback)
SetOnTokenExpiry ==
    /\ onTokenExpiry' = TRUE
    /\ lastQuery' = NoQuery
    /\ UNCHANGED <<now, warningTimer, refreshTimer, logoutTimer, countdowns,
                   onTokenRefresh, refreshAttempt, events, lastCall>>
    /\ UNCHANGED <<voteVars, sessVars, busVars, storeVars, requests, sent>>
    /\ lastResponse' = NoResponse

\* setOnTokenRefresh(callback)
SetOnTokenRefresh ==
    /\ onTokenRefresh' = TRUE
    /\ lastQuery' = NoQuery
    /\ UNCHANGED <<now, warningTimer, refreshTimer, logoutTimer, countdowns,
                   onTokenExpiry, refreshAttempt, events, lastCall>>
    /\ UNCHANGED <<voteVars, sessVars, busVars, storeVars, requests, sent>>
    /\ lastResponse' = NoResponse

\* The warning timer startMonitoring sets: only if timeUntilExpiry > warningTime.
MutWarningTimerAtExpiry(timeUntilExpiry) ==
    IF timeUntilExpiry > WarningMinutes * 60
    THEN PendingAt(now + timeUntilExpiry)
    ELSE NullTimer
WarningTimerFor(timeUntilExpiry) ==
    IF timeUntilExpiry > WarningMinutes * 60
    THEN PendingAt(now + (timeUntilExpiry - WarningMinutes * 60))
    ELSE NullTimer

\* The refresh timer startMonitoring sets: only if timeUntilExpiry > refreshTime.
MutRefreshTimerAtWindowEdge(timeUntilExpiry) ==
    IF timeUntilExpiry >= RefreshMinutes * 60
    THEN PendingAt(now + (timeUntilExpiry - RefreshMinutes * 60))
    ELSE NullTimer
RefreshTimerFor(timeUntilExpiry) ==
    IF timeUntilExpiry > RefreshMinutes * 60
    THEN PendingAt(now + (timeUntilExpiry - RefreshMinutes * 60))
    ELSE NullTimer

\* The logout timer startMonitoring sets.
LogoutTimerFor(timeUntilExpiry) == PendingAt(now + timeUntilExpiry)

\* The body of startMonitoring(token): stopMonitoring(), then the three timers
\* unless the token is empty or expired.  (The later "if (!timeUntilExpiry)
\* return" cannot be taken: a token that is not expired has
\* timeUntilExpiry > 0.)
StartTimers(token) ==
    IF token.empty \/ IsTokenExpired(token, now)
    THEN /\ warningTimer' = NullTimer
         /\ refreshTimer' = NullTimer
         /\ logoutTimer' = NullTimer
    ELSE LET timeUntilExpiry ==
                 CHOOSE d \in GetTimeUntilExpiry(token, now) : TRUE
         IN  /\ warningTimer' = WarningTimerFor(timeUntilExpiry)
             /\ refreshTimer' = RefreshTimerFor(timeUntilExpiry)
             /\ logoutTimer' = LogoutTimerFor(timeUntilExpiry)

\* startMonitoring(token)
StartMonitoring(token) ==
    /\ StartTimers(token)
    /\ events' = <<>>
    /\ lastCall' = Call("start", token, now, IsTokenExpired(token, now))
    /\ refreshAttempt' = "none"
    /\ lastQuery' = NoQuery
    /\ UNCHANGED <<now, countdowns, onTokenExpiry, onTokenRefresh>>
    /\ UNCHANGED <<voteVars, sessVars, busVars, storeVars, requests, sent>>
    /\ lastResponse' = NoResponse

\* The body of stopMonitoring(): clearTimeout on each non-null field, then
\* null.  It is called at clock value t, with `log` the events so far and
\* `pending` the countdown timeouts still to come.
StopTimers(t, log, pending) ==
    /\ warningTimer' = NullTimer
    /\ refreshTimer' = NullTimer
    /\ logoutTimer' = NullTimer
    /\ lastCall' = [Call("stop", lastCall.token, t, lastCall.expired)
                      EXCEPT !.seen = Len(log), !.idle = (pending = {})]

\* stopMonitoring()
StopMonitoring ==
    /\ StopTimers(now, events, countdowns)
    /\ lastQuery' = NoQuery
    /\ UNCHANGED <<now, countdowns, onTokenExpiry, onTokenRefresh,
                   refreshAttempt, events>>
    /\ UNCHANGED <<voteVars, sessVars, busVars, storeVars, requests, sent>>
    /\ lastResponse' = NoResponse

\* The warning timeout fires: showExpiryWarning() puts up the notification.
WarningTimerFires ==
    /\ warningTimer.st = "pending"
    /\ MayFire(warningTimer.due)
    /\ now' = warningTimer.due
    /\ warningTimer' = FiredAt(warningTimer.due)
    /\ events' = Append(events, Logged("warning", warningTimer.due))
    /\ lastQuery' = NoQuery
    /\ UNCHANGED <<refreshTimer, logoutTimer, countdowns, onTokenExpiry,
                   onTokenRefresh, refreshAttempt, lastCall>>
    /\ UNCHANGED <<voteVars, sessVars, busVars, storeVars, requests, sent>>
    /\ lastResponse' = NoResponse

\* The refresh timeout fires: attemptTokenRefresh() returns when no refresh
\* callback is set, else calls onTokenRefresh() and awaits its promise.
RefreshTimerFires ==
    /\ refreshTimer.st = "pending"
    /\ MayFire(refreshTimer.due)
    /\ now' = refreshTimer.due
    /\ refreshTimer' = FiredAt(refreshTimer.due)
    /\ events' = IF onTokenRefresh
                 THEN Append(events, Logged("refresh", refreshTimer.due))
                 ELSE events
    /\ refreshAttempt' = IF onTokenRefresh THEN "awaited" ELSE refreshAttempt
    /\ lastQuery' = NoQuery
    /\ UNCHANGED <<warningTimer, logoutTimer, countdowns, onTokenExpiry,
                   onTokenRefresh, lastCall>>
    /\ UNCHANGED <<voteVars, sessVars, busVars, storeVars, requests, sent>>
    /\ lastResponse' = NoResponse

\* (startMonitoring's callers reset refreshAttempt: it follows the refresh
\* callback of the monitored credential only.)
\* How the promise of onTokenRefresh() may end: AuthService's callback
\* resolves to false; any other callback resolves to true or false, or rejects.
RefreshOutcomes == IF service THEN {"false"} ELSE {"true", "false", "throw"}

\* The logout timer after attemptTokenRefresh() resumes with the outcome: both
\* branches and the catch block only show a notification.
MutRefreshSuccessCancelsLogout(outcome) ==
    IF outcome = "true" THEN NullTimer ELSE logoutTimer
LogoutTimerAfterRefresh(outcome) == logoutTimer

\* The awaited promise settles and attemptTokenRefresh() resumes.
RefreshSettles ==
    \E outcome \in RefreshOutcomes :
        /\ refreshAttempt = "awaited"
        /\ refreshAttempt' = outcome
        /\ logoutTimer' = LogoutTimerAfterRefresh(outcome)
        /\ lastQuery' = NoQuery
        /\ UNCHANGED <<now, warningTimer, refreshTimer, countdowns,
                       onTokenExpiry, onTokenRefresh, events, lastCall>>
        /\ UNCHANGED <<voteVars, sessVars, busVars, storeVars, requests, sent>>
        /\ lastResponse' = NoResponse

\* updateCountdown() with the closure variable at `countdown`, at time t:
\* countdown--, then either the expiry callback or the next one-second timeout.
MutCountdownInvokesCallbackAtZero(countdown) == countdown - 1 <= 0
CountdownInvokesCallback(countdown) == countdown - 1 < 0
MutUpdateCountdownForgetsCallback(countdown, t, pending, log) ==
    IF CountdownInvokesCallback(countdown)
    THEN [countdowns |-> pending, events |-> log, invoked |-> FALSE]
    ELSE [countdowns |-> pending \cup {[due |-> t + 1, countdown |-> countdown - 1]},
          events |-> log,
          invoked |-> FALSE]
UpdateCountdown(countdown, t, pending, log) ==
    IF CountdownInvokesCallback(countdown)
    THEN [countdowns |-> pending,
          events |-> IF onTokenExpiry
                     THEN Append(log, Logged("onTokenExpiry", t)) ELSE log,
          invoked |-> onTokenExpiry]
    ELSE [countdowns |-> pending \cup {[due |-> t + 1, countdown |-> countdown - 1]},
          events |-> log,
          invoked |-> FALSE]

\* AuthService.logout(), called at clock value t: token = null,
\* storage.removeItem("auth_token"), tokenManager.stopMonitoring().
MutLogoutKeepsTimers(t, log, pending) ==
    /\ authToken' = {}
    /\ authStored' = {}
    /\ UNCHANGED <<warningTimer, refreshTimer, logoutTimer, lastCall>>
LogoutBody(t, log, pending) ==
    /\ authToken' = {}
    /\ authStored' = {}
    /\ StopTimers(t, log, pending)

\* The expiry callback after updateCountdown(): AuthService registers
\* () => this.logout(); any other callback is an observer outside the model.
ExpiryCallback(u, t) ==
    IF u.invoked /\ service
    THEN LogoutBody(t, u.events, u.countdowns)
    ELSE UNCHANGED <<warningTimer, refreshTimer, logoutTimer, lastCall,
                     authToken, authStored>>

\* The logout timeout fires: handleTokenExpiry() returns when no expiry
\* callback is set, else showLogoutCountdown() runs updateCountdown() once
\* (which, counting down from logoutCountdownSeconds = 30, only sets the
\* first one-second timeout).
LogoutTimerFires ==
    /\ logoutTimer.st = "pending"
    /\ MayFire(logoutTimer.due)
    /\ now' = logoutTimer.due
    /\ logoutTimer' = FiredAt(logoutTimer.due)
    /\ LET log == Append(events, Logged("expiryTimer", logoutTimer.due))
           u   == UpdateCountdown(LogoutCountdownSeconds, logoutTimer.due,
                                  countdowns, log)
       IN  IF onTokenExpiry
           THEN countdowns' = u.countdowns /\ events' = u.events
           ELSE countdowns' = countdowns /\ events' = log
    /\ lastQuery' = NoQuery
    /\ UNCHANGED <<warningTimer, refreshTimer, onTokenExpiry, onTokenRefresh,
                   refreshAttempt, lastCall>>
    /\ UNCHANGED <<voteVars, sessVars, busVars, storeVars, requests, sent>>
    /\ lastResponse' = NoResponse

\* A setTimeout(updateCountdown, 1000) of the countdown modal fires.
CountdownTick ==
    \E c \in countdowns :
        /\ MayFire(c.due)
        /\ now' = c.due
        /\ LET u == UpdateCountdown(c.countdown, c.due, countdowns \ {c}, events)
           IN  /\ countdowns' = u.countdowns
               /\ events' = u.events
               /\ ExpiryCallback(u, c.due)
        /\ lastQuery' = NoQuery
        /\ UNCHANGED <<onTokenExpiry, onTokenRefresh, refreshAttempt, service>>
        /\ UNCHANGED <<voteVars, busVars, storeVars, requests, sent>>
        /\ lastResponse' = NoResponse

\* Time passes with no timeout coming due before the new clock value.
Elapse ==
    \E d \in ElapseSteps :
        /\ now + d <= MaxMinutes * 60
        /\ \A e \in PendingDues : now + d <= e
        /\ now' = now + d
        /\ lastQuery' = NoQuery
        /\ UNCHANGED <<warningTimer, refreshTimer, logoutTimer, countdowns,
                       onTokenExpiry, onTokenRefresh, refreshAttempt, events,
                       lastCall>>
        /\ UNCHANGED <<voteVars, sessVars, busVars, storeVars, requests, sent>>
        /\ lastResponse' = NoResponse

\* What of the program isTokenExpired could touch: the fields of the
\* TokenManager, the countdown timeouts and the fields of the AuthService.
ProgramState ==
    <<warningTimer, refreshTimer, logoutTimer, countdowns, onTokenExpiry,
      onTokenRefresh, refreshAttempt, service, authToken, authStored>>

\* isTokenExpired, getTimeUntilExpiry, getTokenExpiry and decodeToken assign
\* no field and set or clear no timeout.
MutIsTokenExpiredStops ==
    /\ warningTimer' = NullTimer
    /\ refreshTimer' = NullTimer
    /\ logoutTimer' = NullTimer
    /\ UNCHANGED <<countdowns, onTokenExpiry, onTokenRefresh, refreshAttempt,
                   service, authToken, authStored>>
IsTokenExpiredFrame ==
    UNCHANGED <<warningTimer, refreshTimer, logoutTimer, countdowns,
                onTokenExpiry, onTokenRefresh, refreshAttempt, service,
                authToken, authStored>>

\* tokenManager.isTokenExpired(token), called by any client.
IsTokenExpiredCalled ==
    \E token \in Tokens :
        /\ IsTokenExpiredFrame
        /\ lastQuery' = Query("isTokenExpired", Shape(token, now),
                              IsTokenExpired(token, now), DecodeRaises(token),
                              ProgramState' = ProgramState)
        /\ UNCHANGED <<now, events, lastCall>>
        /\ UNCHANGED <<voteVars, busVars, storeVars, requests, sent>>
        /\ lastResponse' = NoResponse

StartMonitoringCalled == \E token \in Tokens : StartMonitoring(token)

NextMon ==
    \/ SetOnTokenExpiry
    \/ SetOnTokenRefresh
    \/ StartMonitoringCalled
    \/ StopMonitoring
    \/ WarningTimerFires
    \/ RefreshTimerFires
    \/ RefreshSettles
    \/ LogoutTimerFires
    \/ CountdownTick
    \/ Elapse

(***************************************************************************)
(*                     Part II : properties (SpecMon)                      *)
(* lastCall describes the last startMonitoring / stopMonitoring call: the  *)
(* token, the clock value, what isTokenExpired said of the token then,     *)
(* which callbacks were set and whether no countdown modal was running.    *)
(* events lists what has fired since the last startMonitoring.             *)
(***************************************************************************)
FieldTimers == {warningTimer, refreshTimer, logoutTimer}
NoFieldTimerPending == \A f \in FieldTimers : f.st # "pending"

IsPrefix(p, q) ==
    /\ Len(p) <= Len(q)
    /\ \A i \in 1 .. Len(p) : p[i] = q[i]
\* A log follows a timeline: it is a prefix of it, and holds every entry of
\* it whose time has passed.
Follows(log, timeline) ==
    /\ IsPrefix(log, timeline)
    /\ \A i \in 1 .. Len(timeline) : now > timeline[i].at => Len(log) >= i

\* The last call was startMonitoring with a decodable token whose exp is not
\* after the clock, the expiry callback being set.
ExpiredStart ==
    /\ lastCall.op = "start"
    /\ lastCall.cbExpiry
    /\ \E e \in GetTokenExpiry(lastCall.token) : e <= lastCall.at

\* C9: for a token whose exp is not after the current time, isTokenExpired is
\* true, and startMonitoring fires the expiry notification at once and leaves
\* no warning, refresh or logout timer pending.
C9_ExpiredStartExpiresAtOnce ==
    ExpiredStart =>
        /\ lastCall.expired
        /\ NoFieldTimerPending
        /\ \E i \in 1 .. Len(events) :
              events[i] = Logged("onTokenExpiry", lastCall.at)

\* The end-to-end scenario: startMonitoring of a token that expires in ten
\* minutes, both callbacks set, no countdown of an earlier token running.
ScenarioDelay == 10 * 60
Scenario ==
    /\ lastCall.op = "start"
    /\ GetTimeUntilExpiry(lastCall.token, lastCall.at) = {ScenarioDelay}
    /\ lastCall.cbExpiry /\ lastCall.cbRefresh
    /\ lastCall.idle
CallbackLog == SelectSeq(events, LAMBDA e : e.what # "expiryTimer")

WellFormed(token) == token.parts = 3 /\ token.decodable /\ token.exp # 0
\* The last call was startMonitoring of a credential that had not expired:
\* the monitored credential, its expiresAt and the delay D it had left.
Monitored ==
    /\ lastCall.op = "start"
    /\ WellFormed(lastCall.token)
    /\ lastCall.token.exp > lastCall.at
ExpiresAt  == lastCall.token.exp
Delay      == ExpiresAt - lastCall.at
WarningDue == ExpiresAt - WarningMinutes * 60
RefreshDue == ExpiresAt - RefreshMinutes * 60
EventsOf(kinds) == SelectSeq(events, LAMBDA e : e.what \in kinds)
Callbacks == {"warning", "refresh", "onTokenExpiry"}

\* C11: after startMonitoring of a credential with D > warningWindow, the
\* warning is raised exactly once, when D - warningWindow has elapsed (not
\* before, and no later), and the expiry callback is not invoked up to then.
C11_WarningOnceNoExpiryBefore ==
    (Monitored /\ Delay > WarningMinutes * 60) =>
        /\ warningTimer \in {PendingAt(WarningDue), FiredAt(WarningDue)}
        /\ now > WarningDue => warningTimer.st = "fired"
        /\ EventsOf({"warning"}) =
              IF warningTimer.st = "fired"
              THEN << Logged("warning", WarningDue) >> ELSE << >>
        /\ \A i \in 1 .. Len(events) :
              events[i].what = "onTokenExpiry" => events[i].at > WarningDue
\* C11, for a startMonitoring made while no countdown modal of an earlier
\* credential is running: the same.
C11_WarningOnceFromIdle ==
    lastCall.idle => C11_WarningOnceNoExpiryBefore
\* The warning of such a credential has just been raised.
C11_IdleWitness ==
    /\ Monitored /\ Delay > WarningMinutes * 60
    /\ lastCall.idle
    /\ warningTimer = FiredAt(WarningDue)
    /\ now = WarningDue

\* C13: after stopMonitoring, whatever the manager was doing, no warning,
\* refresh or expiry callback is invoked until startMonitoring is called.
C13_NoCallbackAfterStop ==
    lastCall.op = "stop" =>
        \A i \in 1 .. Len(events) :
            i > lastCall.seen => events[i].what \notin Callbacks
\* C13, second half: stopMonitoring called right after stopMonitoring changes
\* nothing.
C13_StopTwiceIsStopOnce ==
    [][(StopMonitoring /\ lastCall.op = "stop" /\ lastCall.at = now)
          => UNCHANGED <<ProgramState, events>>]_vars

\* C33: after startMonitoring of a credential that has not expired, a
\* warning timer exists only if D > warningWindow and a refresh timer only if
\* D > refreshWindow (strictly), so a credential started inside a window
\* (its edge included) never has that callback of its own; the expiry timer
\* is set whatever D is, due at expiresAt, and fires by then.
C33_TimersOnlyOutsideWindows ==
    Monitored =>
        /\ warningTimer # NullTimer => Delay > WarningMinutes * 60
        /\ refreshTimer # NullTimer => Delay > RefreshMinutes * 60
        /\ Delay <= WarningMinutes * 60 => EventsOf({"warning"}) = << >>
        /\ Delay <= RefreshMinutes * 60 => EventsOf({"refresh"}) = << >>
        /\ logoutTimer \in {PendingAt(ExpiresAt), FiredAt(ExpiresAt)}
        /\ now > ExpiresAt => logoutTimer.st = "fired"
        /\ EventsOf({"expiryTimer"}) =
              IF logoutTimer.st = "fired"
              THEN << Logged("expiryTimer", ExpiresAt) >> ELSE << >>
\* A credential started with exactly the refresh window left has expired
\* without a warning or a refresh timer.
C33_Witness ==
    /\ Monitored
    /\ Delay = RefreshMinutes * 60
    /\ onTokenRefresh
    /\ warningTimer = NullTimer
    /\ refreshTimer = NullTimer
    /\ logoutTimer = FiredAt(ExpiresAt)

\* C14: after startMonitoring(new credential), every warning, refresh and
\* expiry callback is one of the new credential, at the time its expiresAt
\* determines (the expiry callback: at expiresAt, or at the end of the
\* countdown that starts then); a credential that starts no timers has none.
C14_OnlyCallbacksOfNewCredential ==
    lastCall.op = "start" =>
        \A i \in 1 .. Len(events) :
            events[i].what \in Callbacks =>
                /\ Monitored
                /\ events[i] \in
                      { Logged("warning", WarningDue),
                        Logged("refresh", RefreshDue),
                        Logged("onTokenExpiry", ExpiresAt),
                        Logged("onTokenExpiry",
                               ExpiresAt + LogoutCountdownSeconds) }

InitSess ==
    /\ service = FALSE
    /\ authToken = {}
    /\ authStored = {}

\* What storage may hold under "auth_token" when the page loads.
StoredAtLoad == {{}} \cup { {token} : token \in Tokens }
InitStored ==
    /\ service = FALSE
    /\ authToken = {}
    /\ authStored \in StoredAtLoad

\* new AuthService(): token = storage.getItem("auth_token"), then
\* setupTokenExpiryHandling(): both callbacks, and startMonitoring(token) if
\* the token is truthy.
NewAuthService ==
    /\ ~service
    /\ service' = TRUE
    /\ authToken' = authStored
    /\ onTokenExpiry' = TRUE
    /\ onTokenRefresh' = TRUE
    /\ IF \E token \in authStored : ~token.empty
       THEN LET token == CHOOSE tk \in authStored : TRUE
            IN  /\ StartTimers(token)
                /\ events' = <<>>
                /\ refreshAttempt' = "none"
                /\ lastCall' =
                      [Call("start", token, now, IsTokenExpired(token, now))
                         EXCEPT !.cbExpiry = TRUE, !.cbRefresh = TRUE]
       ELSE UNCHANGED <<warningTimer, refreshTimer, logoutTimer, events,
                        refreshAttempt, lastCall>>
    /\ lastQuery' = NoQuery
    /\ UNCHANGED <<now, countdowns, authStored>>
    /\ UNCHANGED <<voteVars, busVars, storeVars, requests, sent>>
    /\ lastResponse' = NoResponse

\* setToken(token): token, storage.setItem, tokenManager.startMonitoring(token).
SetToken(token) ==
    /\ authToken' = {token}
    /\ authStored' = {token}
    /\ StartTimers(token)
    /\ events' = <<>>
    /\ refreshAttempt' = "none"
    /\ lastCall' = Call("start", token, now, IsTokenExpired(token, now))

\* The shape of the held token ("none": this.token is null).
HeldShape ==
    IF authToken = {} THEN "none"
    ELSE Shape(CHOOSE token \in authToken : TRUE, now)

\* The answers of POST /auth/login: ok with an access_token, or not ok.
LoginResponses ==
    { [ok |-> TRUE, access_token |-> token] : token \in Tokens }
    \cup { [ok |-> FALSE, access_token |-> NoToken] }

\* if (!response.ok) { ...; throw new Error(...) }: nothing is assigned
\* before the throw.
MutFailedLoginLogsOut ==
    /\ LogoutBody(now, events, countdowns)
    /\ UNCHANGED <<events, refreshAttempt>>
FailedLogin ==
    UNCHANGED <<authToken, authStored, warningTimer, refreshTimer,
                logoutTimer, events, refreshAttempt, lastCall>>

\* login(credentials), when the response arrives: it throws on a response
\* that is not ok, else setToken(tokenData.access_token).  AuthProvider.login
\* awaits it outside any try block, so the error leaves that too.  The
\* failed call is recorded: the token held, the error, and whether the call
\* left the program state as it was.
LoginOn(response) ==
    /\ service
    /\ IF response.ok
       THEN SetToken(response.access_token)
       ELSE FailedLogin
    /\ UNCHANGED <<now, countdowns, onTokenExpiry, onTokenRefresh, service>>
    /\ lastQuery' = IF response.ok THEN NoQuery
                    ELSE Query("login", HeldShape, FALSE, TRUE,
                               ProgramState' = ProgramState)
    /\ UNCHANGED <<voteVars, busVars, storeVars, requests, sent>>
    /\ lastResponse' = NoResponse
Login == \E response \in LoginResponses : LoginOn(response)

\* logout(), called by the application (and by getCurrentUser on a 401).
Logout ==
    /\ service
    /\ LogoutBody(now, events, countdowns)
    /\ lastQuery' = NoQuery
    /\ UNCHANGED <<now, countdowns, onTokenExpiry, onTokenRefresh,
                   refreshAttempt, events, service>>
    /\ UNCHANGED <<voteVars, busVars, storeVars, requests, sent>>
    /\ lastResponse' = NoResponse

\* isAuthenticated() with this.token = held ({}: null) at clock value t.
MutIsAuthenticatedTokenOnly(held, t) == held # {}
IsAuthenticated(held, t) ==
    held # {} /\ \A token \in held : ~IsTokenExpired(token, t)

\* authService.isAuthenticated()
IsAuthenticatedCalled ==
    /\ service
    /\ IsTokenExpiredFrame
    /\ lastQuery' = Query("isAuthenticated", HeldShape,
                          IsAuthenticated(authToken, now),
                          \E token \in authToken : DecodeRaises(token),
                          ProgramState' = ProgramState)
    /\ UNCHANGED <<now, events, lastCall>>
    /\ UNCHANGED <<voteVars, busVars, storeVars, requests, sent>>
    /\ lastResponse' = NoResponse

NextSession ==
    \/ NewAuthService
    \/ Login
    \/ Logout
    \/ IsAuthenticatedCalled
    \/ IsTokenExpiredCalled
    \/ WarningTimerFires
    \/ RefreshTimerFires
    \/ RefreshSettles
    \/ LogoutTimerFires
    \/ CountdownTick
    \/ Elapse

(***************************************************************************)
(*                     Part IV : AuthEventEmitter                          *)
(* A Set of handlers is the sequence of its members in insertion order     *)
(* (the order in which Set.prototype.forEach visits them).                 *)
(***************************************************************************)

\* on() calls in one run.
MaxOnCalls == 2

\* type AuthEventType
Kinds == {"logout", "unauthorized", "token_expired"}

\* The handler functions of the clients.  Invoked, a handler may call the
\* unsubscribe closures (of the kind being delivered) of some handlers:
\* 1 and 2 call none, 3 calls its own, 4 calls that of handler 2.  It may
\* also call on() for the kind being delivered: 5 subscribes handler 1.
HandlerIds == {1, 2, 3, 4, 5}
UnsubscribedBy(h) ==
    IF h = 3 THEN {3} ELSE IF h = 4 THEN {2} ELSE {}
SubscribedBy(h) ==
    IF h = 5 THEN {1} ELSE {}

NoStamps == [h \in HandlerIds |-> 0]
NoSet    == [present |-> FALSE, set |-> <<>>]
NoEmit   == [kind |-> "none", met |-> NoStamps, invoked |-> <<>>]

\* new AuthEventEmitter(): an empty Map.
InitBus ==
    /\ handlers = [kind \in Kinds |-> NoSet]
    /\ closures = {}
    /\ subscribedAt = [kind \in Kinds |-> NoStamps]
    /\ onCalls = 0
    /\ lastEmit = NoEmit

Has(set, h) == \E i \in 1 .. Len(set) : set[i] = h
\* Set.prototype.add and Set.prototype.delete
SetAdd(set, h)    == IF Has(set, h) THEN set ELSE Append(set, h)
SetDelete(set, h) == SelectSeq(set, LAMBDA x : x # h)

\* on(event, handler): the Set of the kind is created if missing, the handler
\* added to it; the closure returned is kept by the caller.
MutOnEveryKind(kind, h) ==
    /\ onCalls < MaxOnCalls
    /\ handlers' = [k \in Kinds |->
                       [present |-> TRUE, set |-> SetAdd(handlers[k].set, h)]]
    /\ closures' = closures \cup {<<kind, h>>}
    /\ onCalls' = onCalls + 1
    /\ subscribedAt' = [subscribedAt EXCEPT ![kind][h] =
                           IF @ = 0 THEN onCalls + 1 ELSE @]
    /\ lastEmit' = NoEmit
    /\ UNCHANGED <<voteVars, monVars, sessVars, storeVars, requests, sent>>
    /\ lastResponse' = NoResponse
On(kind, h) ==
    /\ onCalls < MaxOnCalls
    /\ handlers' = [handlers EXCEPT ![kind] =
                       [present |-> TRUE, set |-> SetAdd(@.set, h)]]
    /\ closures' = closures \cup {<<kind, h>>}
    /\ onCalls' = onCalls + 1
    /\ subscribedAt' = [subscribedAt EXCEPT ![kind][h] =
                           IF @ = 0 THEN onCalls + 1 ELSE @]
    /\ lastEmit' = NoEmit
    /\ UNCHANGED <<voteVars, monVars, sessVars, storeVars, requests, sent>>
    /\ lastResponse' = NoResponse

\* The closure on(event, handler) returned: handlers.get(event)?.delete(handler)
Unsubscribe(kind, h) ==
    /\ <<kind, h>> \in closures
    /\ handlers' = [handlers EXCEPT ![kind].set = SetDelete(@, h)]
    /\ subscribedAt' = [subscribedAt EXCEPT ![kind][h] = 0]
    /\ lastEmit' = NoEmit
    /\ UNCHANGED <<closures, onCalls>>
    /\ UNCHANGED <<voteVars, monVars, sessVars, storeVars, requests, sent>>
    /\ lastResponse' = NoResponse

\* Set.prototype.forEach over the entries of the Set from position i on.  A
\* member deleted during the pass leaves its entry empty (0) and is not
\* visited if it had not been reached; the handler at an entry is invoked and
\* the unsubscribe closures it calls delete from the same Set, the on() calls
\* it makes add to the same Set: a member added during the pass is a new
\* entry at the end, which the pass visits before it finishes.
RECURSIVE AddAll(_, _)
AddAll(entries, hs) ==
    IF hs = {} THEN entries
    ELSE LET g == CHOOSE x \in hs : TRUE
         IN  AddAll(SetAdd(entries, g), hs \ {g})
Vacate(entries, hs) ==
    [i \in 1 .. Len(entries) |-> IF entries[i] \in hs THEN 0 ELSE entries[i]]
MutForEachFirstOnly(entries, i, invoked) ==
    [entries |-> entries,
     invoked |-> IF i <= Len(entries) THEN <<entries[i]>> ELSE <<>>]
RECURSIVE ForEach(_, _, _)
ForEach(entries, i, invoked) ==
    IF i > Len(entries) THEN [entries |-> entries, invoked |-> invoked]
    ELSE IF entries[i] = 0 THEN ForEach(entries, i + 1, invoked)
    ELSE ForEach(AddAll(Vacate(entries, UnsubscribedBy(entries[i])),
                        SubscribedBy(entries[i])),
                 i + 1, Append(invoked, entries[i]))

\* The on() calls of a pass: the invocations that make one, and the number
\* of the call by which handler g was subscribed in the pass.
OnCallsIn(invoked) ==
    { i \in 1 .. Len(invoked) : SubscribedBy(invoked[i]) # {} }
OnCallNo(invoked, g) ==
    LET by == { i \in OnCallsIn(invoked) : g \in SubscribedBy(invoked[i]) }
    IN  onCalls + Cardinality({ i \in OnCallsIn(invoked) :
                                  \A j \in by : i <= j })
\* emit(event): handlers.get(event), and forEach over it if there is one.
EmitBody(kind) ==
    LET pass == ForEach(handlers[kind].set, 1, <<>>)
        left == SelectSeq(pass.entries, LAMBDA x : x # 0)
    IN  /\ handlers' = [handlers EXCEPT ![kind].set = left]
        /\ subscribedAt' =
              [subscribedAt EXCEPT ![kind] =
                  [h \in HandlerIds |->
                      IF ~Has(left, h) THEN 0
                      ELSE IF @[h] # 0 THEN @[h]
                      ELSE OnCallNo(pass.invoked, h)]]
        /\ closures' = closures \cup
              { <<kind, g>> : g \in UNION { SubscribedBy(pass.invoked[i]) :
                                               i \in 1 .. Len(pass.invoked) } }
        /\ onCalls' = onCalls + Cardinality(OnCallsIn(pass.invoked))
        /\ lastEmit' = [kind |-> kind, met |-> subscribedAt[kind],
                        invoked |-> pass.invoked]
Emit(kind) ==
    /\ onCalls + Cardinality(OnCallsIn(ForEach(handlers[kind].set, 1, <<>>).invoked))
          <= MaxOnCalls
    /\ EmitBody(kind)
    /\ UNCHANGED <<voteVars, monVars, sessVars, storeVars, requests, sent>>
    /\ lastResponse' = NoResponse

\* off(event): handlers.delete(event)
Off(kind) ==
    /\ handlers' = [handlers EXCEPT ![kind] = NoSet]
    /\ subscribedAt' = [subscribedAt EXCEPT ![kind] = NoStamps]
    /\ lastEmit' = NoEmit
    /\ UNCHANGED <<closures, onCalls>>
    /\ UNCHANGED <<voteVars, monVars, sessVars, storeVars, requests, sent>>
    /\ lastResponse' = NoResponse

\* clear(): handlers.clear()
Clear ==
    /\ handlers' = [kind \in Kinds |-> NoSet]
    /\ subscribedAt' = [kind \in Kinds |-> NoStamps]
    /\ lastEmit' = NoEmit
    /\ UNCHANGED <<closures, onCalls>>
    /\ UNCHANGED <<voteVars, monVars, sessVars, storeVars, requests, sent>>
    /\ lastResponse' = NoResponse

OnCalled          == \E kind \in Kinds : \E h \in HandlerIds : On(kind, h)
UnsubscribeCalled == \E kind \in Kinds : \E h \in HandlerIds : Unsubscribe(kind, h)
EmitCalled        == \E kind \in Kinds : Emit(kind)
OffCalled         == \E kind \in Kinds : Off(kind)

NextBus ==
    \/ OnCalled
    \/ UnsubscribeCalled
    \/ EmitCalled
    \/ OffCalled
    \/ Clear

(***************************************************************************)
(*                  Part III : properties (SpecSession)                    *)
(* lastQuery describes the isTokenExpired / isAuthenticated call that the  *)
(* last step was, if it was one.                                           *)
(***************************************************************************)
AllTimersNull ==
    /\ warningTimer = NullTimer
    /\ refreshTimer = NullTimer
    /\ logoutTimer = NullTimer
\* The expiry timer of the monitored credential has fired, and neither
\* startMonitoring nor stopMonitoring has been called since.
ExpiryTimerFired ==
    /\ lastCall.op = "start"
    /\ \E i \in 1 .. Len(events) : events[i].what = "expiryTimer"
\* The last thing that fired is the expiry callback, just now.
ExpiryCallbackJustInvoked ==
    /\ Len(events) > 0
    /\ events[Len(events)] = Logged("onTokenExpiry", now)

StartedDead ==
    /\ lastCall.expired
    /\ AllTimersNull
    /\ EventsOf({"warning", "refresh", "expiryTimer"}) = << >>
C15_UndecodableIsExpired ==
    /\ (lastQuery.op = "isTokenExpired" /\ lastQuery.shape = "undecodable") =>
          lastQuery.result /\ ~lastQuery.raised
    /\ (lastQuery.op = "isTokenExpired" /\ lastQuery.shape = "expired") =>
          lastQuery.result /\ ~lastQuery.raised
    /\ (lastCall.op = "start"
          /\ Shape(lastCall.token, lastCall.at) \in {"undecodable", "expired"}) =>
          StartedDead /\ ~lastCall.raised
\* startMonitoring of a token whose part 2 is not base64 of JSON, then
\* isTokenExpired asked of a token that cannot be decoded.
C15_Witness ==
    /\ lastCall.op = "start"
    /\ lastCall.token.parts = 3 /\ ~lastCall.token.decodable
    /\ lastQuery.op = "isTokenExpired"
    /\ lastQuery.shape = "undecodable"
    /\ lastQuery.result

\* C17: a call of isTokenExpired leaves the timer fields, the pending
\* timeouts, the callbacks and the session as they were, whatever the
\* manager is doing and whether or not startMonitoring was ever called.
C17_IsTokenExpiredChangesNothing ==
    lastQuery.op = "isTokenExpired" => lastQuery.kept /\ ~lastQuery.raised
\* isTokenExpired has been asked of an expired token while the timers of
\* the monitored credential are pending.
C17_Witness ==
    /\ lastQuery.op = "isTokenExpired"
    /\ lastQuery.result
    /\ warningTimer.st = "pending"
    /\ logoutTimer.st = "pending"
\* isTokenExpired has been asked before startMonitoring was ever called.
C17_WitnessNotStarted ==
    /\ lastQuery.op = "isTokenExpired"
    /\ lastCall.op = "new"

\* C18: isAuthenticated() is true exactly when a token is held whose exp can
\* be read and lies after the clock; in particular it is false for a held
\* token that has expired while the countdown has not yet logged out.
C18_AuthenticatedIffHeldAndValid ==
    /\ IsAuthenticated(authToken, now) =
          (authToken # {} /\ HeldShape = "valid")
    /\ lastQuery.op = "isAuthenticated" =>
          lastQuery.result = (authToken # {} /\ HeldShape = "valid")
\* isAuthenticated() has answered false for a held token that has expired,
\* the countdown still running.
C18_Witness ==
    /\ lastQuery.op = "isAuthenticated"
    /\ ~lastQuery.result
    /\ authToken # {}
    /\ HeldShape = "expired"
    /\ countdowns # {}

\* C32: when the expiry timer has fired at T with the expiry callback
\* registered (AuthService registers it before it starts any monitoring),
\* the countdown it opened ticks once a second and invokes the callback when
\* logoutCountdownSeconds ticks have passed: not before T +
\* logoutCountdownSeconds, once then, and never again for that expiry.
\* Timeouts fire when they are due, so "eventually" is "by the time the
\* clock has passed T + logoutCountdownSeconds".
CountdownOf(T) ==
    { c \in countdowns : c.due + c.countdown = T + LogoutCountdownSeconds }
CallbacksFor(i) ==
    { j \in i + 1 .. Len(events) : events[j].what = "onTokenExpiry" }
C32_CallbackOnceAfterCountdown ==
    \A i \in 1 .. Len(events) :
        events[i].what = "expiryTimer" =>
            LET T == events[i].at
            IN  /\ onTokenExpiry
                /\ \A j \in CallbacksFor(i) :
                      events[j].at = T + LogoutCountdownSeconds
                /\ Cardinality(CallbacksFor(i)) =
                      IF CountdownOf(T) = {} THEN 1 ELSE 0
                /\ Cardinality(CountdownOf(T)) <= 1
                /\ \A c \in CountdownOf(T) :
                      /\ c.countdown \in 0 .. LogoutCountdownSeconds - 1
                      /\ now <= c.due
                /\ now > T + LogoutCountdownSeconds => CountdownOf(T) = {}
\* The callback was invoked logoutCountdownSeconds after the expiry timer
\* fired, and a minute later it has not been invoked again.
C32_Witness ==
    \E i \in 1 .. Len(events) :
        /\ events[i].what = "expiryTimer"
        /\ now >= events[i].at + LogoutCountdownSeconds + 60
        /\ Cardinality(CallbacksFor(i)) = 1

\* C35: a login that fails throws, and leaves the token held, the stored
\* credential and every pending timer (the countdown timeouts included) as
\* they were.
C35_FailedLoginChangesNothing ==
    lastQuery.op = "login" => lastQuery.raised /\ lastQuery.kept
\* A login has failed while a token is held and stored and the timers of
\* its credential are pending.
C35_Witness ==
    /\ lastQuery.op = "login"
    /\ lastQuery.shape = "valid"
    /\ authStored = authToken
    /\ warningTimer.st = "pending"
    /\ refreshTimer.st = "pending"
    /\ logoutTimer.st = "pending"

\* The state setToken(token) leaves: the token held and stored, monitoring
\* started on it at this clock value, nothing fired since.
TokenJustSet ==
    /\ service
    /\ lastCall.op = "start"
    /\ authToken = {lastCall.token}
    /\ lastCall.at = now
    /\ events = << >>
\* The warning, refresh and logout fields hold the timers of the credential
\* last started, and nothing if that credential starts none.
FieldTimersOfHeldToken ==
    IF Monitored
    THEN /\ warningTimer \in {NullTimer, PendingAt(WarningDue)}
         /\ refreshTimer \in {NullTimer, PendingAt(RefreshDue)}
         /\ logoutTimer = PendingAt(ExpiresAt)
    ELSE /\ warningTimer = NullTimer
         /\ refreshTimer = NullTimer
         /\ logoutTimer = NullTimer
\* C34: while AuthService holds no token, no warning, refresh or expiry
\* timer of the monitor is pending; and setToken leaves the monitor with no
\* timeout but those of the token just set.
C34_TimersFollowHeldToken ==
    /\ (service /\ authToken = {}) => NoFieldTimerPending
    /\ TokenJustSet => (FieldTimersOfHeldToken /\ countdowns = {})
\* C34, for the three timer fields alone: they follow the held token.
C34_FieldTimersFollowHeldToken ==
    /\ (service /\ authToken = {}) => NoFieldTimerPending
    /\ TokenJustSet => FieldTimersOfHeldToken

(***************************************************************************)
(*                    Part IV : properties (SpecBus)                       *)
(* lastEmit describes the emit() that the last step was, if it was one:    *)
(* met[h] is the number of the on() call by which handler h was            *)
(* subscribed when emit() began (0: not subscribed), invoked lists the     *)
(* handlers in the order they were invoked.                                *)
(***************************************************************************)
Emitted == lastEmit.kind # "none"
Met     == { h \in HandlerIds : lastEmit.met[h] > 0 }
TimesInvoked(h) ==
    Cardinality({ i \in 1 .. Len(lastEmit.invoked) : lastEmit.invoked[i] = h })
InSubscriptionOrder ==
    \A i, j \in 1 .. Len(lastEmit.invoked) :
        i < j => lastEmit.met[lastEmit.invoked[i]] < lastEmit.met[lastEmit.invoked[j]]
\* Some handler the pass invoked called an unsubscribe closure.
UnsubscribedDuringPass ==
    \E i \in 1 .. Len(lastEmit.invoked) : UnsubscribedBy(lastEmit.invoked[i]) # {}

\* C19: emit(kind) invokes every handler that is subscribed to the kind
\* exactly once, in the order the handlers were subscribed, and no handler
\* that is not subscribed (one whose unsubscribe closure was called before).
C19_EveryHandlerOnceInOrder ==
    Emitted =>
        /\ \A h \in HandlerIds :
              TimesInvoked(h) = IF h \in Met THEN 1 ELSE 0
        /\ InSubscriptionOrder
\* C19, for an emit() none of whose handlers calls an unsubscribe closure
\* or on(): the same.
C19_PlainHandlersOnceInOrder ==
    (\A h \in Met : UnsubscribedBy(h) = {} /\ SubscribedBy(h) = {})
        => C19_EveryHandlerOnceInOrder
\* Two such handlers were subscribed, handler 2 before handler 1, and emit()
\* has invoked both in that order.
C19_PlainWitness ==
    /\ Emitted
    /\ Met = {1, 2}
    /\ lastEmit.met[2] < lastEmit.met[1]
    /\ lastEmit.invoked = <<2, 1>>

\* C20: when a handler calls its own unsubscribe closure or that of another
\* handler of the kind during emit(kind), every handler that was subscribed
\* when emit() began is still invoked exactly once in that pass.
C20_UnsubscribeLeavesPassIntact ==
    (Emitted /\ UnsubscribedDuringPass) =>
        \A h \in Met : TimesInvoked(h) = 1
\* C20, for a handler that calls only its own unsubscribe closure: the pass
\* is intact.
C20_SelfUnsubscribeLeavesPassIntact ==
    (Emitted /\ 4 \notin Met) => \A h \in Met : TimesInvoked(h) = 1

\* C21: the kinds are independent.  emit(A) invokes only handlers that are
\* subscribed to A (when emit begins, or by an on(A, h) made during the
\* pass), and on(A, h), the unsubscribe closure of (A, h), emit(A) and off(A)
\* leave the handler set of every other kind B as it was.
OtherKindsKept(a) ==
    \A b \in Kinds \ {a} : handlers'[b] = handlers[b]
C21_KindsIndependent ==
    [][\A a \in Kinds :
          /\ (/\ lastEmit'.kind = "none"
              /\ \/ \E h \in HandlerIds : On(a, h) \/ Unsubscribe(a, h)
                 \/ Off(a))
                => OtherKindsKept(a)
          /\ (lastEmit'.kind = a /\ Emit(a)) =>
                /\ OtherKindsKept(a)
                /\ \A h \in HandlerIds :
                      TimesInvoked(h)' > 0 =>
                          \/ Has(handlers[a].set, h)
                          \/ Has(handlers'[a].set, h)]_vars
\* emit('unauthorized') has invoked handler 1 and not handler 2, which is
\* subscribed to 'logout' only and still is.
C21_Witness ==
    /\ lastEmit.kind = "unauthorized"
    /\ lastEmit.invoked = <<1>>
    /\ handlers["logout"].set = <<2>>
    /\ ~Has(handlers["unauthorized"].set, 2)

\* C36: when the same handler has been subscribed twice to a kind (two
\* on() calls, nothing removed since) and one of the two unsubscribe closures
\* is called, the other subscription stays: a publish of the kind made next
\* still invokes the handler.
SubscribedTwice(kind, h) ==
    /\ onCalls = 2
    /\ closures = {<<kind, h>>}
    /\ subscribedAt[kind][h] = 1
    /\ Has(handlers[kind].set, h)
C36_OtherSubscriptionSurvives ==
    [][\A kind \in Kinds : \A h \in HandlerIds :
          (SubscribedTwice(kind, h) /\ Unsubscribe(kind, h)) =>
              Has(ForEach(handlers'[kind].set, 1, <<>>).invoked, h)]_vars

\* C37: a handler that is subscribed to the kind by a handler of the pass,
\* and was not subscribed when emit() began, is not invoked in that pass; it
\* is in the Set afterwards, for the next emit().
SubscribedDuringPass(h) ==
    /\ lastEmit.met[h] = 0
    /\ \E i \in 1 .. Len(lastEmit.invoked) : h \in SubscribedBy(lastEmit.invoked[i])
C37_SubscribedDuringPassWaits ==
    Emitted =>
        \A h \in HandlerIds :
            SubscribedDuringPass(h) =>
                /\ TimesInvoked(h) = 0
                /\ Has(handlers[lastEmit.kind].set, h)

(***************************************************************************)
(*                       Part V : StorageService                           *)
(* null and undefined are {}, a string v is {v}.  A localStorage call may  *)
(* throw whenever it is made (quota exceeded, storage disabled, private    *)
(* browsing).  The sentinel key of the probe is none of StorageKeys.       *)
(***************************************************************************)

StorageKeys   == {"auth_token", "theme"}
StorageValues == {"", "a"}
EmptyMap      == [key \in StorageKeys |-> {}]

\* The record of an operation: what it returned, whether an error left it,
\* whether it called localStorage and whether that call threw.
Op(op, key, result, raised, touched, threw) ==
    [op |-> op, key |-> key, result |-> result, raised |-> raised,
     touched |-> touched, failed |-> threw]
NoOp == Op("none", "", {}, FALSE, FALSE, FALSE)

\* Before new StorageService().
InitStore ==
    /\ isAvailable = FALSE
    /\ memoryStorage = EmptyMap
    /\ localStorage = EmptyMap
    /\ probe = "none"
    /\ kv = EmptyMap
    /\ failedBefore = FALSE
    /\ lastOp = NoOp

\* catch (e) { console.error(...) } after each localStorage call: whether the
\* error of a call that threw leaves the operation.
MutCatchRethrows(threw) == threw
CatchRaises(threw) == FALSE

\* checkAvailability(): true unless setItem or removeItem of the sentinel
\* throws.
ProbeOutcomes == {"ok", "setItemThrows", "removeItemThrows"}
CheckAvailability(outcome) == outcome = "ok"

\* new StorageService()
NewStorageService ==
    /\ probe = "none"
    /\ \E outcome \in ProbeOutcomes :
          /\ probe' = outcome
          /\ isAvailable' = CheckAvailability(outcome)
          /\ lastOp' = Op("new", "", {}, CatchRaises(outcome # "ok"), TRUE,
                          outcome # "ok")
    /\ memoryStorage' = EmptyMap
    /\ UNCHANGED <<localStorage, kv, failedBefore>>
    /\ UNCHANGED <<voteVars, monVars, sessVars, busVars, requests, sent>>
    /\ lastResponse' = NoResponse

\* if (this.isAvailable): whether the operation calls localStorage.
MutUsesLocalStorageAlways == TRUE
UsesLocalStorage == isAvailable

\* this.memoryStorage.get(key) || null
OrNull(held) == IF held = {""} THEN {} ELSE held

\* A localStorage call of an earlier operation (not of the probe) threw.
FailedBeforeNext == failedBefore \/ (lastOp.op # "new" /\ lastOp.failed)

\* getItem(key)
GetItem(key) ==
    /\ probe # "none"
    /\ \E threw \in BOOLEAN :
          LET tried  == UsesLocalStorage
              result == IF tried /\ ~threw THEN localStorage[key]
                        ELSE OrNull(memoryStorage[key])
          IN  lastOp' = Op("get", key, result, tried /\ CatchRaises(threw),
                           tried, tried /\ threw)
    /\ failedBefore' = FailedBeforeNext
    /\ UNCHANGED <<isAvailable, memoryStorage, localStorage, probe, kv>>
    /\ UNCHANGED <<voteVars, monVars, sessVars, busVars, requests, sent>>
    /\ lastResponse' = NoResponse

\* setItem(key, value)
SetItem(key, value) ==
    /\ probe # "none"
    /\ \E threw \in BOOLEAN :
          LET tried == UsesLocalStorage
          IN  /\ IF tried /\ ~threw
                 THEN /\ localStorage' = [localStorage EXCEPT ![key] = {value}]
                      /\ UNCHANGED memoryStorage
                 ELSE /\ memoryStorage' = [memoryStorage EXCEPT ![key] = {value}]
                      /\ UNCHANGED localStorage
              /\ lastOp' = Op("set", key, {}, tried /\ CatchRaises(threw),
                              tried, tried /\ threw)
    /\ kv' = [kv EXCEPT ![key] = {value}]
    /\ failedBefore' = FailedBeforeNext
    /\ UNCHANGED <<isAvailable, probe>>
    /\ UNCHANGED <<voteVars, monVars, sessVars, busVars, requests, sent>>
    /\ lastResponse' = NoResponse

\* removeItem(key)
RemoveItem(key) ==
    /\ probe # "none"
    /\ \E threw \in BOOLEAN :
          LET tried == UsesLocalStorage
          IN  /\ IF tried /\ ~threw
                 THEN /\ localStorage' = [localStorage EXCEPT ![key] = {}]
                      /\ UNCHANGED memoryStorage
                 ELSE /\ memoryStorage' = [memoryStorage EXCEPT ![key] = {}]
                      /\ UNCHANGED localStorage
              /\ lastOp' = Op("remove", key, {}, tried /\ CatchRaises(threw),
                              tried, tried /\ threw)
    /\ kv' = [kv EXCEPT ![key] = {}]
    /\ failedBefore' = FailedBeforeNext
    /\ UNCHANGED <<isAvailable, probe>>
    /\ UNCHANGED <<voteVars, monVars, sessVars, busVars, requests, sent>>
    /\ lastResponse' = NoResponse

\* clear()
ClearStorage ==
    /\ probe # "none"
    /\ \E threw \in BOOLEAN :
          LET tried == UsesLocalStorage
          IN  /\ IF tried /\ ~threw
                 THEN /\ localStorage' = EmptyMap
                      /\ UNCHANGED memoryStorage
                 ELSE /\ memoryStorage' = EmptyMap
                      /\ UNCHANGED localStorage
              /\ lastOp' = Op("clear", "", {}, tried /\ CatchRaises(threw),
                              tried, tried /\ threw)
    /\ kv' = EmptyMap
    /\ failedBefore' = FailedBeforeNext
    /\ UNCHANGED <<isAvailable, probe>>
    /\ UNCHANGED <<voteVars, monVars, sessVars, busVars, requests, sent>>
    /\ lastResponse' = NoResponse

GetItemCalled    == \E key \in StorageKeys : GetItem(key)
SetItemCalled    ==
    \E key \in StorageKeys : \E value \in StorageValues : SetItem(key, value)
RemoveItemCalled == \E key \in StorageKeys : RemoveItem(key)

NextStore ==
    \/ NewStorageService
    \/ GetItemCalled
    \/ SetItemCalled
    \/ RemoveItemCalled
    \/ ClearStorage

(***************************************************************************)
(*                    Part V : properties (SpecStore)                      *)
(***************************************************************************)
ProbeFailed == probe \in {"setItemThrows", "removeItemThrows"}

\* C25: when the probe of localStorage failed at construction, no later
\* operation calls localStorage or raises; each works on the Map in memory,
\* which holds exactly what was set and not removed since, and getItem
\* answers from it.
C25_ProbeFailedMemoryOnly ==
    ProbeFailed =>
        /\ ~isAvailable
        /\ lastOp.op # "new" => ~lastOp.touched
        /\ ~lastOp.raised
        /\ localStorage = EmptyMap
        /\ memoryStorage = kv
        /\ lastOp.op = "get" => lastOp.result = OrNull(memoryStorage[lastOp.key])
\* After a failed probe a value has been set and getItem has returned it
\* from memory.
C25_Witness ==
    /\ ProbeFailed
    /\ lastOp.op = "get"
    /\ lastOp.result = {"a"}
    /\ ~lastOp.touched

\* C26: once a localStorage call has thrown inside getItem, setItem,
\* removeItem or clear, no later operation calls localStorage.
C26_DemotedAfterRuntimeFailure ==
    failedBefore => ~lastOp.touched /\ ~UsesLocalStorage

\* C27: no operation, the construction included, raises to its caller,
\* whichever localStorage calls throw.
C27_NeverRaises == ~lastOp.raised
\* A localStorage call has thrown inside setItem, after one had thrown in an
\* earlier operation, and setItem returned.
C27_Witness ==
    /\ lastOp.op = "set"
    /\ lastOp.failed
    /\ failedBefore
    /\ ~lastOp.raised

\* C28: getItem(k) returns the value of the last setItem(k, v) that no
\* removeItem(k) or clear() followed, and null if there is none.
C28_OneKeyValueMap ==
    lastOp.op = "get" => lastOp.result = kv[lastOp.key]

\* No localStorage call has failed since the probe succeeded: the durable
\* store is in use and holds everything that was set.
DurableInUse ==
    /\ probe = "ok"
    /\ ~failedBefore
    /\ ~lastOp.failed
\* C38: getItem returns exactly the string that was stored, in the memory
\* mode (the probe failed) as in the durable one; in particular "" after
\* setItem(k, ""), not null.
C38_GetReturnsWhatWasStored ==
    (lastOp.op = "get" /\ (ProbeFailed \/ DurableInUse)) =>
        lastOp.result = kv[lastOp.key]
\* C38, for the durable store alone: getItem returns what was stored.
C38_DurableReturnsWhatWasStored ==
    (lastOp.op = "get" /\ DurableInUse) => lastOp.result = kv[lastOp.key]

(***************************************************************************)
(*             Part VI : the interceptors of the axios instance            *)
(* storage keeps what it is given under "auth_token" (authStored, as in    *)
(* Part III).  The handlers subscribed to 'unauthorized' are those of      *)
(* Part IV; a handler that is invoked reads storage.getItem("auth_token"). *)
(***************************************************************************)

\* Requests sent in one run.
MaxRequests == 2

\* error.response?.status of a failure (0: no response at all), 200 for a
\* response that is passed through.
Statuses == {0, 200, 401, 500}

\* No request sent yet.
InitGuard ==
    /\ requests = {}
    /\ sent = 0
    /\ lastResponse = NoResponse

\* The request interceptor: token = storage.getItem("auth_token"), and the
\* header Authorization: Bearer <token> if the token is truthy.
MutAuthorizationOfSession(stored) == { token \in authToken : ~token.empty }
Authorization(stored) == { token \in stored : ~token.empty }

\* A request leaves through the axios instance; stored is what storage held
\* for "auth_token" at that moment (history).
SendRequest ==
    /\ sent < MaxRequests
    /\ sent' = sent + 1
    /\ requests' = requests \cup
          { [auth |-> Authorization(authStored), stored |-> authStored] }
    /\ lastResponse' = NoResponse
    /\ lastEmit' = NoEmit
    /\ UNCHANGED <<handlers, closures, subscribedAt, onCalls>>
    /\ UNCHANGED <<voteVars, monVars, sessVars, storeVars>>

\* error.response?.status === 401
MutUnauthorizedAnyFailure(status) == status # 200
Unauthorized(status) == status = 401

\* storage.removeItem("auth_token"); authEvents.emit('unauthorized'): what
\* storage holds afterwards, and what a handler invoked by the emit reads.
MutEmitThenRemove(stored) == [stored |-> {}, read |-> stored]
RemoveThenEmit(stored) == [stored |-> {}, read |-> {}]

\* The response interceptor: a response is passed through; a failure is
\* passed on with Promise.reject(error), after removal and emit if its
\* status is 401.
ResponseArrives ==
    \E r \in requests : \E status \in Statuses :
        /\ requests' = requests \ {r}
        /\ IF status # 200 /\ Unauthorized(status)
           THEN LET did == RemoveThenEmit(authStored)
                    pass == ForEach(handlers["unauthorized"].set, 1, <<>>)
                IN  /\ authStored' = did.stored
                    /\ EmitBody("unauthorized")
                    /\ lastResponse' =
                          [status |-> status, auth |-> r.auth,
                           before |-> authStored, published |-> 1,
                           observed |-> [i \in 1 .. Len(pass.invoked) |-> did.read],
                           rejected |-> TRUE, error |-> status]
           ELSE /\ UNCHANGED <<authStored, handlers, subscribedAt, closures,
                                onCalls>>
                /\ lastEmit' = NoEmit
                /\ lastResponse' =
                      [status |-> status, auth |-> r.auth,
                       before |-> authStored, published |-> 0,
                       observed |-> <<>>,
                       rejected |-> (status # 200), error |-> status]
        /\ UNCHANGED <<sent, service, authToken>>
        /\ UNCHANGED <<voteVars, monVars, storeVars>>

\* A client subscribes a handler to 'unauthorized' (one of the two that
\* call no unsubscribe closure).
GuardHandlers == {1, 2}
SubscribeUnauthorized == \E h \in GuardHandlers : On("unauthorized", h)

\* The logins of these runs: two credentials that have not expired, the
\* empty string, and a login that fails.
GuardLoginResponses ==
    { response \in LoginResponses :
        response.ok => \/ response.access_token.empty
                       \/ /\ WellFormed(response.access_token)
                          /\ response.access_token.exp > 60 }
GuardLogin == \E response \in GuardLoginResponses : LoginOn(response)

NextGuard ==
    \/ NewAuthService
    \/ GuardLogin
    \/ Logout
    \/ SubscribeUnauthorized
    \/ SendRequest
    \/ ResponseArrives

(***************************************************************************)
(*                    Part VI : properties (SpecGuard)                     *)
(* lastResponse describes the response the last step handled: its status,  *)
(* the header its request carried, what storage held before, the number of *)
(* emit calls, what each invoked handler read from storage, and the error  *)
(* passed on to the caller.                                                *)
(***************************************************************************)
Handled(status) == lastResponse.status = status
Failures == Statuses \ {200}

\* C22: on a 401 the interceptor leaves storage without credential, calls
\* emit('unauthorized') once and passes the same error on; on any other
\* failure storage and bus are as they were and the same error is passed on.
C22_UnauthorizedClearsAndPublishesOnce ==
    /\ Handled(401) =>
          /\ authStored = {}
          /\ lastResponse.published = 1
          /\ lastEmit.kind = "unauthorized"
          /\ lastResponse.rejected /\ lastResponse.error = 401
    /\ (lastResponse.status \in Failures \ {401}) =>
          /\ authStored = lastResponse.before
          /\ lastResponse.published = 0
          /\ lastEmit = NoEmit
          /\ lastResponse.rejected
          /\ lastResponse.error = lastResponse.status
\* A 401 has been handled while a credential was stored and a handler was
\* subscribed.
C22_Witness ==
    /\ Handled(401)
    /\ lastResponse.before # {}
    /\ Len(lastEmit.invoked) = 1

\* C23: after a 401 has been handled, the AuthService holds no token,
\* isAuthenticated() is false and no timer of the monitor is pending.
C23_UnauthorizedEndsSession ==
    Handled(401) =>
        /\ authToken = {}
        /\ ~IsAuthenticated(authToken, now)
        /\ NoFieldTimerPending

StaleUnauthorized ==
    /\ Handled(401)
    /\ lastResponse.auth # {}
    /\ lastResponse.before # {}
    /\ lastResponse.auth # lastResponse.before
C29_StaleUnauthorizedKeepsCredential ==
    StaleUnauthorized => authStored = lastResponse.before

\* C30: every handler invoked by the emit of a 401 reads
\* storage.getItem("auth_token") as null.
C30_HandlersSeeNoCredential ==
    Handled(401) =>
        \A i \in 1 .. Len(lastResponse.observed) : lastResponse.observed[i] = {}
\* Two handlers have been invoked for a 401 that found a credential stored.
C30_Witness ==
    /\ Handled(401)
    /\ lastResponse.before # {}
    /\ Len(lastResponse.observed) = 2

(***************************************************************************)
(*                          The specifications                             *)
(***************************************************************************)

\* The cache as loaded once, for the runs that do not exercise the votes.
VoteIdle ==
    /\ InitVote
    /\ feedbacks = [id \in FeedbackIds |-> NoState]

\* The parts a run does not exercise stay as they are before their objects
\* are used.
RestIdle    == InitBus /\ InitStore /\ InitGuard

VoteInit    == InitVote /\ InitMon /\ InitSess /\ RestIdle
MonInit     == VoteIdle /\ InitMon /\ InitSess /\ RestIdle
SessionInit == VoteIdle /\ InitMon /\ InitStored /\ RestIdle
BusInit     == VoteIdle /\ InitMon /\ InitSess /\ RestIdle
StoreInit   == VoteIdle /\ InitMon /\ InitSess /\ RestIdle
GuardInit   == VoteIdle /\ InitMon /\ InitSess /\ RestIdle

SpecVote    == VoteInit /\ [][NextVote]_vars
SpecMon     == MonInit /\ [][NextMon]_vars
SpecSession == SessionInit /\ [][NextSession]_vars
SpecBus     == BusInit /\ [][NextBus]_vars
SpecStore   == StoreInit /\ [][NextStore]_vars
SpecGuard   == GuardInit /\ [][NextGuard]_vars

====
